---- MODULE Spec2Model ----
(***************************************************************************)
(* Model of the poker-standings normalizer (src/src/schema.py), of the     *)
(* Player Profile page script (src/pages/2_Player_Profile.py) and of the   *)
(* sidebar filters (src/src/ui.py).                                        *)
(*                                                                         *)
(* Text is modelled by TLA+ strings, taken apart character by character    *)
(* with Head, Tail and SubSeq.  A table cell is a record [null, s]: a null *)
(* cell (None / NaN) or a text cell holding the string s.  A number is a   *)
(* record [ok, m, e]: missing (NaN) when ok is FALSE, else the decimal     *)
(* m * 10^(-e), kept normalized (no trailing zero in m while e > 0), so    *)
(* that equal numbers are equal records.  Binary rounding of float64 is    *)
(* not modelled.  pandas is modelled as version 2.x behaves.               *)
(***************************************************************************)
EXTENDS Integers, Sequences, FiniteSets, TLC

VARIABLES
    cell,        \* _clean_numeric_series: the raw cell under cleaning
    cleaned,     \* _clean_numeric_series: its result, or "pending"
    rawcols,     \* detect_results_schema: the df.columns it is applied to
    schema,      \* detect_results_schema: its result, or "pending"
    df,          \* normalize_results_df: the input table
    result,      \* normalize_results_df: the outcome, or status "pending"
    again,       \* normalize_results_df applied to the table it returned
    nets,        \* streaks: the player's session nets, oldest first
    streak,      \* streaks: sessions folded so far and the accumulator
    pc,          \* Player Profile page: position of the script run
    loaded,      \* page: the Dataset data.load_dataset returns
    filters,     \* page: what ui.render_global_filters returned
    filtered_df, \* page: what data.apply_filters returned
    selected_player,  \* page: what st.selectbox returned
    profile_call      \* page: the call of metrics.player_profile, if made

cleanVars  == <<cell, cleaned>>
detectVars == <<rawcols, schema>>
normVars   == <<df, result, again>>
streakVars == <<nets, streak>>
pageVars   == <<pc, loaded, filters, filtered_df, selected_player, profile_call>>

vars == <<cleanVars, detectVars, normVars, streakVars, pageVars>>

(***************************************************************************)
(* Bounds of the model.                                                    *)
(***************************************************************************)
MaxCellLen == 3      \* every cell text up to this length is cleaned
MaxRows    == 2      \* rows of an input table

(***************************************************************************)
(* Cells, numbers, characters.                                             *)
(***************************************************************************)
Txt(s) == [null |-> FALSE, s |-> s]
NULL   == [null |-> TRUE, s |-> ""]

Num(m, e) == [ok |-> TRUE, m |-> m, e |-> e]
NaN       == [ok |-> FALSE, m |-> 0, e |-> 0]

NBSP == "~"          \* stands for U+00A0, the no-break space

Digits     == {"0", "1", "2", "3", "4", "5", "6", "7", "8", "9"}
Whitespace == {" ", NBSP}

DigitVal(c) ==
    CASE c = "0" -> 0 [] c = "1" -> 1 [] c = "2" -> 2 [] c = "3" -> 3
      [] c = "4" -> 4 [] c = "5" -> 5 [] c = "6" -> 6 [] c = "7" -> 7
      [] c = "8" -> 8 [] c = "9" -> 9

CharAt(s, i) == SubSeq(s, i, i)

RECURSIVE Pow10(_)
Pow10(k) == IF k = 0 THEN 1 ELSE 10 * Pow10(k - 1)

\* Series.astype(str) on one cell: a null cell becomes the text "nan".
AsStr(c) == IF c.null THEN "nan" ELSE c.s

\* str.replace(old, "", regex=False) for a one-character old.
RECURSIVE RemoveChar(_, _)
RemoveChar(s, ch) ==
    IF s = "" THEN ""
    ELSE IF Head(s) = ch THEN RemoveChar(Tail(s), ch)
    ELSE Head(s) \o RemoveChar(Tail(s), ch)

\* str.strip(): leading and trailing whitespace removed.
RECURSIVE LStrip(_)
LStrip(s) ==
    IF s # "" /\ Head(s) \in Whitespace THEN LStrip(Tail(s)) ELSE s

RECURSIVE RStrip(_)
RStrip(s) ==
    IF s # "" /\ CharAt(s, Len(s)) \in Whitespace
    THEN RStrip(SubSeq(s, 1, Len(s) - 1)) ELSE s

Strip(s) == LStrip(RStrip(s))

(***************************************************************************)
(* _clean_numeric_series, one cell at a time (every step of it is          *)
(* element-wise).                                                          *)
(***************************************************************************)
\* Position of the first ")" of s at or after position i, 0 when none.
RECURSIVE ClosePos(_, _)
ClosePos(s, i) ==
    IF i > Len(s) THEN 0
    ELSE IF CharAt(s, i) = ")" THEN i
    ELSE ClosePos(s, i + 1)

\* Mutant of ParenSub: the accounting negative is not converted.
ParenSub_NoNegative(s) == s

\* str.replace(r"\(([^)]+)\)", r"-\1", regex=True): leftmost non-overlapping
\* matches; a match needs at least one character between "(" and the first
\* ")" that follows it; the scan resumes after the match.
RECURSIVE ParenSub(_)
ParenSub(s) ==
    IF s = "" THEN ""
    ELSE IF Head(s) = "(" /\ ClosePos(s, 2) >= 3
         THEN "-" \o SubSeq(s, 2, ClosePos(s, 2) - 1)
                  \o ParenSub(SubSeq(s, ClosePos(s, 2) + 1, Len(s)))
         ELSE Head(s) \o ParenSub(Tail(s))

\* str.replace(r"[^0-9.\-]", "", regex=True)
RECURSIVE KeepNumericChars(_)
KeepNumericChars(s) ==
    IF s = "" THEN ""
    ELSE IF Head(s) \in Digits \cup {".", "-"}
         THEN Head(s) \o KeepNumericChars(Tail(s))
         ELSE KeepNumericChars(Tail(s))

RECURSIVE AllDigits(_)
AllDigits(s) == s = "" \/ (Head(s) \in Digits /\ AllDigits(Tail(s)))

RECURSIVE DigitsVal(_)
DigitsVal(s) ==
    IF s = "" THEN 0
    ELSE 10 * DigitsVal(SubSeq(s, 1, Len(s) - 1)) + DigitVal(CharAt(s, Len(s)))

RECURSIVE DotPos(_, _)
DotPos(s, i) ==
    IF i > Len(s) THEN 0
    ELSE IF CharAt(s, i) = "." THEN i
    ELSE DotPos(s, i + 1)

RECURSIVE Normalized(_, _)
Normalized(m, e) ==
    IF m = 0 THEN Num(0, 0)
    ELSE IF e > 0 /\ m % 10 = 0 THEN Normalized(m \div 10, e - 1)
    ELSE Num(m, e)

\* An unsigned decimal literal: digits, at most one point, at least one digit.
ParseUnsigned(s, sign) ==
    LET d    == DotPos(s, 1)
        ip   == IF d = 0 THEN s ELSE SubSeq(s, 1, d - 1)
        fp   == IF d = 0 THEN "" ELSE SubSeq(s, d + 1, Len(s))
    IN  IF AllDigits(ip) /\ AllDigits(fp) /\ Len(ip) + Len(fp) > 0
        THEN Normalized(sign * (DigitsVal(ip) * Pow10(Len(fp)) + DigitsVal(fp)),
                        Len(fp))
        ELSE NaN

\* pd.to_numeric(errors="coerce") on text over the characters 0-9 . - ;
\* the missing value stays missing, text that is no number becomes NaN.
to_numeric(s) ==
    IF s = "" THEN NaN
    ELSE IF Head(s) = "-" THEN ParseUnsigned(Tail(s), -1)
    ELSE ParseUnsigned(s, 1)

_clean_numeric_series(c) ==
    LET text0 == Strip(RemoveChar(AsStr(c), NBSP))
        text1 == ParenSub(text0)
        text2 == KeepNumericChars(text1)
    IN  to_numeric(text2)       \* "" -> pd.NA -> NaN

(***************************************************************************)
(* Inputs of the numeric cleaning: every text of at most MaxCellLen        *)
(* characters over CellAlphabet, the null cell, and the cells the          *)
(* documentation names.                                                    *)
(***************************************************************************)
CellAlphabet == {"(", ")", "$", "1", "5", "0", ".", "-", " ", ","}

RECURSIVE TextsUpTo(_)
TextsUpTo(n) ==
    IF n = 0 THEN {""}
    ELSE LET shorter == TextsUpTo(n - 1)
         IN  shorter \cup {s \o c : s \in shorter, c \in CellAlphabet}

NamedCells ==
    {"(25.50)", "($25.50)", "$(25.50)", "$1,234.00", "1,234.00", "25.50",
     "$25.50", " 42 ", "~7~", "abc", "n/a", "2024-01-16", "(-5)", "1.2.3"}

CellInputs == {Txt(s) : s \in TextsUpTo(MaxCellLen) \cup NamedCells} \cup {NULL}

Pending == [done |-> FALSE, val |-> NaN]
Done(v) == [done |-> TRUE, val |-> v]

IdleClean  == cell = NULL /\ cleaned = Pending
IdleDetect == rawcols = <<>> /\ schema = "pending"
IdleNorm   == df = [none |-> TRUE, cols |-> <<>>, rows |-> <<>>]
              /\ result = [status |-> "idle", cols |-> <<>>, rows |-> <<>>]
              /\ again = [status |-> "idle", cols |-> <<>>, rows |-> <<>>]

NoPlayer   == [none |-> TRUE, name |-> ""]
NoFrame    == [none |-> TRUE, rows |-> {}]
NoFilters  == [given |-> FALSE, lo |-> 0, hi |-> 0, players |-> {}]
NoCall     == [made |-> FALSE, frame |-> NoFrame, player |-> NoPlayer]
StartStreak ==
    [pos |-> 0, kind |-> "neutral", length |-> 0, longest_win |-> 0, longest_loss |-> 0]

IdleStreak == nets = <<>> /\ streak = StartStreak
IdlePage   == /\ pc = "idle" /\ loaded = NoFrame /\ filters = NoFilters
              /\ filtered_df = NoFrame /\ selected_player = NoPlayer
              /\ profile_call = NoCall

InitClean ==
    /\ cell \in CellInputs
    /\ cleaned = Pending
    /\ IdleDetect /\ IdleNorm /\ IdleStreak /\ IdlePage

\* One call of _clean_numeric_series on the cell.
CleanCell ==
    /\ ~cleaned.done
    /\ cleaned' = Done(_clean_numeric_series(cell))
    /\ UNCHANGED <<cell, detectVars, normVars, streakVars, pageVars>>

NextClean == CleanCell

SpecClean == InitClean /\ [][NextClean]_vars

Neg(v) == IF v.ok THEN Normalized(-v.m, v.e) ELSE NaN

RECURSIVE HasChar(_, _)
HasChar(s, ch) == s # "" /\ (Head(s) = ch \/ HasChar(Tail(s), ch))

RECURSIVE HasDigit(_)
HasDigit(s) == s # "" /\ (Head(s) \in Digits \/ HasDigit(Tail(s)))

\* The text between the outer parentheses of "(...)", "" when s has not
\* that form.
Inner(s) ==
    IF Len(s) >= 3 /\ Head(s) = "(" /\ CharAt(s, Len(s)) = ")"
    THEN SubSeq(s, 2, Len(s) - 1) ELSE ""

\* An amount: text without parentheses or minus sign that cleans to a number.
IsAmount(t) ==
    /\ t # "" /\ ~HasChar(t, "(") /\ ~HasChar(t, ")") /\ ~HasChar(t, "-")
    /\ _clean_numeric_series(Txt(t)).ok

\* C5: numeric cleaning of a cell.  Surrounding whitespace is ignored; a
\* parenthesized amount, with or without a currency symbol inside the
\* parentheses, cleans to the negated amount; in a cell without parentheses
\* currency symbols and thousands separators do not change the value; a cell
\* with no digit, or whose residue is no number, cleans to missing;
\* "(25.50)" -> -25.5, "($25.50)" -> -25.5, "$1,234.00" -> 1234.0.
Thm_C5_NumericCleaning ==
    cleaned.done =>
        LET s == AsStr(cell)
            v == cleaned.val
        IN  /\ v.ok \in BOOLEAN
            /\ v = _clean_numeric_series(Txt(Strip(s)))
            /\ IsAmount(Inner(Strip(s)))
                   => v = Neg(_clean_numeric_series(Txt(Inner(Strip(s)))))
            /\ ~HasChar(s, "(")
                   => v = _clean_numeric_series(Txt(RemoveChar(RemoveChar(s, "$"), ",")))
            /\ ~HasDigit(s) => v = NaN
            /\ s \in {"(-5)", "1.2.3", "2024-01-16", "abc", "n/a"} => v = NaN
            /\ s = "(25.50)" => v = Num(-255, 1)
            /\ s = "($25.50)" => v = Num(-255, 1)
            /\ s = "$1,234.00" => v = Num(1234, 0)

Wit_C5_ParenCurrency ==
    /\ cleaned.done
    /\ cell = Txt("($25.50)")
    /\ cleaned.val = Num(-255, 1)

(***************************************************************************)
(* detect_results_schema.                                                  *)
(***************************************************************************)
UpperLetters == "ABCDEFGHIJKLMNOPQRSTUVWXYZ"
LowerLetters == "abcdefghijklmnopqrstuvwxyz"

UpperSet == {CharAt(UpperLetters, i) : i \in 1..Len(UpperLetters)}
LowerOf  ==
    [c \in UpperSet |->
        CharAt(LowerLetters,
               CHOOSE i \in 1..Len(UpperLetters) : CharAt(UpperLetters, i) = c)]

LowerChar(c) == IF c \in UpperSet THEN LowerOf[c] ELSE c

\* str.lower()
RECURSIVE Lower(_)
Lower(s) == IF s = "" THEN "" ELSE LowerChar(Head(s)) \o Lower(Tail(s))

NetDirectCols    == {"player", "date", "net"}
BuyinCashoutCols == {"player", "date", "buy_in", "cash_out"}

\* Mutant of detect_results_schema: the two schema tests in the other order.
detect_results_schema_BuyinFirst(columns) ==
    LET cols == {Lower(columns[i]) : i \in 1..Len(columns)}
    IN  IF BuyinCashoutCols \subseteq cols THEN "buyin_cashout"
        ELSE IF NetDirectCols \subseteq cols THEN "net_direct"
        ELSE "unknown"

detect_results_schema(columns) ==
    LET cols == {Lower(columns[i]) : i \in 1..Len(columns)}
    IN  IF NetDirectCols \subseteq cols THEN "net_direct"
        ELSE IF BuyinCashoutCols \subseteq cols THEN "buyin_cashout"
        ELSE "unknown"

(***************************************************************************)
(* Inputs of the detection: every list of at most MaxCols column names     *)
(* from ColumnNames, in every order, repeated names included.              *)
(***************************************************************************)
MaxCols == 5

ColumnNames ==
    {"player", "date", "net", "buy_in", "cash_out", " Player ", "DATE", "Net "}

RECURSIVE ListsUpTo(_)
ListsUpTo(n) ==
    IF n = 0 THEN {<<>>}
    ELSE LET shorter == ListsUpTo(n - 1)
         IN  shorter \cup {Append(l, c) : l \in shorter, c \in ColumnNames}

InitDetect ==
    /\ rawcols \in ListsUpTo(MaxCols)
    /\ schema = "pending"
    /\ IdleClean /\ IdleNorm /\ IdleStreak /\ IdlePage

\* One call of detect_results_schema on a frame with the columns rawcols.
Detect ==
    /\ schema = "pending"
    /\ schema' = detect_results_schema(rawcols)
    /\ UNCHANGED <<rawcols, cleanVars, normVars, streakVars, pageVars>>

NextDetect == Detect

SpecDetect == InitDetect /\ [][NextDetect]_vars

NameSet(columns, f(_)) == {f(columns[i]) : i \in 1..Len(columns)}

\* C3: the detected schema is decided by the set of (lowercased) column
\* names alone: net_direct whenever the set holds player, date and net, also
\* when buy_in and cash_out are present; otherwise buyin_cashout whenever it
\* holds player, date, buy_in and cash_out; otherwise unknown.  Order,
\* repetition and extra columns do not enter.
Thm_C3_DetectBySet ==
    schema # "pending" =>
        LET S == NameSet(rawcols, Lower)
        IN  /\ (\A n \in NetDirectCols : n \in S) => schema = "net_direct"
            /\ (  /\ \E n \in NetDirectCols : n \notin S
                  /\ \A n \in BuyinCashoutCols : n \in S)
                   => schema = "buyin_cashout"
            /\ (  /\ \E n \in NetDirectCols : n \notin S
                  /\ \E n \in BuyinCashoutCols : n \notin S)
                   => schema = "unknown"

Wit_C3_BothSchemas ==
    /\ schema = "net_direct"
    /\ NetDirectCols \cup BuyinCashoutCols \subseteq NameSet(rawcols, Lower)
    /\ rawcols[1] = "cash_out"
    /\ Len(rawcols) = 5

StandardName(c) == Strip(Lower(c))

\* C8 as stated: detect_results_schema, applied to column names that equal
\* player, date, net (or player, date, buy_in, cash_out) after trimming and
\* lowercasing, returns net_direct (or buyin_cashout).
Cex_C8_DetectIgnoresWhitespace ==
    schema # "pending" =>
        LET S == NameSet(rawcols, StandardName)
        IN  /\ NetDirectCols \subseteq S => schema = "net_direct"
            /\ (BuyinCashoutCols \subseteq S /\ ~(NetDirectCols \subseteq S))
                   => schema = "buyin_cashout"

(***************************************************************************)
(* pd.to_datetime(series, errors="coerce", dayfirst=True), as pandas 2.x   *)
(* does it: the format is guessed from the first non-null element and      *)
(* every element is parsed with that one format; only when no format can   *)
(* be guessed is each element parsed on its own.  The model knows the text *)
(* forms dd/mm/yyyy (or mm/dd/yyyy) and yyyy-mm-dd; any other text is      *)
(* taken as unparseable, which is what happens to the date cells used      *)
(* here.                                                                   *)
(***************************************************************************)
Date(y, m, d) == [ok |-> TRUE, y |-> y, m |-> m, d |-> d]
NaT           == [ok |-> FALSE, y |-> 0, m |-> 0, d |-> 0]

NatStrings == {"", "nan", "NaN", "NAN", "NaT", "nat", "NAT"}

IsLeap(y) == (y % 4 = 0 /\ y % 100 # 0) \/ y % 400 = 0

DaysIn(y, m) ==
    IF m = 2 THEN (IF IsLeap(y) THEN 29 ELSE 28)
    ELSE IF m \in {4, 6, 9, 11} THEN 30 ELSE 31

ValidDate(y, m, d) == y >= 1 /\ m \in 1..12 /\ d >= 1 /\ d <= DaysIn(y, m)

SlashForm(s) ==
    /\ Len(s) = 10 /\ CharAt(s, 3) = "/" /\ CharAt(s, 6) = "/"
    /\ AllDigits(SubSeq(s, 1, 2)) /\ AllDigits(SubSeq(s, 4, 5))
    /\ AllDigits(SubSeq(s, 7, 10))

IsoForm(s) ==
    /\ Len(s) = 10 /\ CharAt(s, 5) = "-" /\ CharAt(s, 8) = "-"
    /\ AllDigits(SubSeq(s, 1, 4)) /\ AllDigits(SubSeq(s, 6, 7))
    /\ AllDigits(SubSeq(s, 9, 10))

MkDate(y, m, d) == IF ValidDate(y, m, d) THEN Date(y, m, d) ELSE NaT

\* strptime with one format; a text that does not match gives NaT.
Strptime(s, fmt) ==
    IF fmt = "%Y-%m-%d" /\ IsoForm(s)
    THEN MkDate(DigitsVal(SubSeq(s, 1, 4)), DigitsVal(SubSeq(s, 6, 7)),
                DigitsVal(SubSeq(s, 9, 10)))
    ELSE IF fmt = "%d/%m/%Y" /\ SlashForm(s)
    THEN MkDate(DigitsVal(SubSeq(s, 7, 10)), DigitsVal(SubSeq(s, 4, 5)),
                DigitsVal(SubSeq(s, 1, 2)))
    ELSE IF fmt = "%m/%d/%Y" /\ SlashForm(s)
    THEN MkDate(DigitsVal(SubSeq(s, 7, 10)), DigitsVal(SubSeq(s, 1, 2)),
                DigitsVal(SubSeq(s, 4, 5)))
    ELSE NaT

\* guess_datetime_format(s, dayfirst=True); "" when no format is guessed.
guess_datetime_format(s) ==
    IF Strptime(s, "%Y-%m-%d").ok THEN "%Y-%m-%d"
    ELSE IF Strptime(s, "%d/%m/%Y").ok THEN "%d/%m/%Y"
    ELSE IF Strptime(s, "%m/%d/%Y").ok THEN "%m/%d/%Y"
    ELSE ""

\* One element parsed on its own (dateutil, dayfirst=True).
ParseOne(s) == Strptime(s, guess_datetime_format(s))

IsNullDate(c) == c.null \/ c.s \in NatStrings

\* Position of the first non-null element at or after i, 0 when none.
RECURSIVE FirstNonNull(_, _)
FirstNonNull(cells, i) ==
    IF i > Len(cells) THEN 0
    ELSE IF ~IsNullDate(cells[i]) THEN i
    ELSE FirstNonNull(cells, i + 1)

\* A cell of a datetime64 column: it holds the timestamp dt itself.
DatetimeCell(d) == [null |-> ~d.ok, s |-> "", dt |-> d]

\* The series has dtype datetime64: every one of its cells is a timestamp.
IsDatetime64(cells) == \A i \in 1..Len(cells) : "dt" \in DOMAIN cells[i]

\* A datetime64 series is returned as it is; text is parsed.
to_datetime(cells) ==
    IF IsDatetime64(cells) THEN [i \in 1..Len(cells) |-> cells[i].dt]
    ELSE
    LET first == FirstNonNull(cells, 1)
        fmt   == IF first = 0 THEN "" ELSE guess_datetime_format(cells[first].s)
    IN  [i \in 1..Len(cells) |->
            IF IsNullDate(cells[i]) THEN NaT
            ELSE IF fmt # "" THEN Strptime(cells[i].s, fmt)
            ELSE ParseOne(cells[i].s)]

(***************************************************************************)
(* normalize_results_df.  A table is [none, cols, rows]: cols the list of  *)
(* column names, rows the list of rows, each a list of cells in column     *)
(* order.  The outcome is [status, cols, rows] with status "ok" (a table   *)
(* is returned) or "raised" (an exception leaves the function); a row of   *)
(* the returned table is [idx, v]: the index label of the input row it     *)
(* comes from (dropna keeps labels) and its values by column name.         *)
(***************************************************************************)
StdCols == <<"player", "date", "net", "group", "session_id">>

Range(f) == {f[i] : i \in DOMAIN f}

EmptyResult  == [status |-> "ok", cols |-> StdCols, rows |-> <<>>]
RaisedResult == [status |-> "raised", cols |-> <<>>, rows |-> <<>>]

\* DataFrame.empty: no columns or no rows.
IsEmptyFrame(t) == Len(t.cols) = 0 \/ Len(t.rows) = 0

ColumnCount(cols, name) == Cardinality({i \in 1..Len(cols) : cols[i] = name})
ColumnPos(cols, name)   == CHOOSE i \in 1..Len(cols) : cols[i] = name

\* Float subtraction; NaN on either side gives NaN.
Sub(a, b) ==
    IF ~a.ok \/ ~b.ok THEN NaN
    ELSE LET e == IF a.e > b.e THEN a.e ELSE b.e
         IN  Normalized(a.m * Pow10(e - a.e) - b.m * Pow10(e - b.e), e)

\* Mutant of BuyinCashoutNet: a missing side counts as zero.
BuyinCashoutNet_MissingAsZero(cash_out, buy_in) ==
    LET z(v) == IF v.ok THEN v ELSE Num(0, 0)
    IN  Sub(z(_clean_numeric_series(cash_out)), z(_clean_numeric_series(buy_in)))

\* working["net"] = working["cash_out"] - working["buy_in"], on one row.
BuyinCashoutNet(cash_out, buy_in) ==
    Sub(_clean_numeric_series(cash_out), _clean_numeric_series(buy_in))

\* working.columns = [str(c).strip().lower() for c in working.columns]
StandardColumns(cols) == [i \in 1..Len(cols) |-> Strip(Lower(cols[i]))]

\* The columns normalize_results_df selects by name and treats as a Series;
\* a repeated name makes the selection a DataFrame, and .str on it (or
\* pd.to_datetime of it) raises.
SeriesColumns(wcols, sch) ==
    (IF sch = "buyin_cashout" THEN {"buy_in", "cash_out"} ELSE {"net"})
    \cup {"date"}
    \cup {c \in {"player", "group", "session_id"} : ColumnCount(wcols, c) > 0}

NormalizeKnown(t, wcols, sch) ==
    LET n == Len(t.rows)
        at(i, c) == t.rows[i][ColumnPos(wcols, c)]
        net == [i \in 1..n |->
                   IF sch = "buyin_cashout"
                   THEN BuyinCashoutNet(at(i, "cash_out"), at(i, "buy_in"))
                   ELSE _clean_numeric_series(at(i, "net"))]
        date == to_datetime([i \in 1..n |-> at(i, "date")])
        present(c) == c = "net" \/ ColumnCount(wcols, c) > 0
        keep == SelectSeq(StdCols, present)
        row(i) == [idx |-> i,
                   v |-> [c \in Range(keep) |->
                            CASE c = "net" -> net[i]
                              [] c = "date" -> date[i]
                              [] OTHER -> Txt(Strip(AsStr(at(i, c))))]]
        notna(i) == ~row(i).v.player.null /\ date[i].ok /\ net[i].ok
        kept == SelectSeq([i \in 1..n |-> i], notna)
    IN  [status |-> "ok", cols |-> keep,
         rows |-> [k \in 1..Len(kept) |-> row(kept[k])]]

\* Mutant of normalize_results_df: no branch for the unknown schema, so that
\* the code goes on to select columns that do not exist and raises KeyError.
normalize_results_df_NoUnknownBranch(t) ==
    IF t.none \/ IsEmptyFrame(t) THEN EmptyResult
    ELSE LET wcols == StandardColumns(t.cols)
             sch   == detect_results_schema(wcols)
         IN  IF sch = "unknown" THEN RaisedResult
             ELSE IF \E c \in SeriesColumns(wcols, sch) : ColumnCount(wcols, c) > 1
                  THEN RaisedResult
                  ELSE NormalizeKnown(t, wcols, sch)

normalize_results_df(t) ==
    IF t.none \/ IsEmptyFrame(t) THEN EmptyResult
    ELSE LET wcols == StandardColumns(t.cols)
             sch   == detect_results_schema(wcols)
         IN  IF sch = "unknown" THEN EmptyResult
             ELSE IF \E c \in SeriesColumns(wcols, sch) : ColumnCount(wcols, c) > 1
                  THEN RaisedResult
                  ELSE NormalizeKnown(t, wcols, sch)

(***************************************************************************)
(* The table normalize_results_df returns, as the next call receives it.   *)
(* Its net column has dtype float64 and its date column datetime64; player,*)
(* group and session_id hold text.  astype(str) of a float64 cell gives    *)
(* the repr of the float: positional when the decimal exponent of its      *)
(* leading digit lies in -4..15, scientific otherwise.                     *)
(***************************************************************************)
DigitChar(d) == CharAt("0123456789", d + 1)

RECURSIVE IntStr(_)
IntStr(n) == IF n < 10 THEN DigitChar(n) ELSE IntStr(n \div 10) \o DigitChar(n % 10)

RECURSIVE Zeros(_)
Zeros(k) == IF k <= 0 THEN "" ELSE "0" \o Zeros(k - 1)

RECURSIVE StripZeros(_)
StripZeros(s) ==
    IF Len(s) > 1 /\ CharAt(s, Len(s)) = "0"
    THEN StripZeros(SubSeq(s, 1, Len(s) - 1)) ELSE s

\* repr(float) of the number v = m * 10^(-e).
float_repr(v) ==
    LET sign == IF v.m < 0 THEN "-" ELSE ""
        D    == IntStr(IF v.m < 0 THEN -v.m ELSE v.m)
        nd   == Len(D)
        x    == nd - 1 - v.e
        ax   == IF x < 0 THEN -x ELSE x
        sig  == StripZeros(D)
    IN  IF x >= -4 /\ x < 16
        THEN sign \o (IF v.e = 0 THEN D \o ".0"
                      ELSE IF nd > v.e
                           THEN SubSeq(D, 1, nd - v.e) \o "." \o SubSeq(D, nd - v.e + 1, nd)
                           ELSE "0." \o Zeros(v.e - nd) \o D)
        ELSE sign \o Head(sig)
                  \o (IF Len(sig) > 1 THEN "." \o Tail(sig) ELSE "")
                  \o "e" \o (IF x < 0 THEN "-" ELSE "+")
                  \o (IF ax < 10 THEN "0" ELSE "") \o IntStr(ax)

\* A cell of a float64 column, held as the text astype(str) gives for it.
FloatCell(v) == IF v.ok THEN Txt(float_repr(v)) ELSE NULL

\* The DataFrame a returned outcome carries, cells in column order.
FrameOf(res) ==
    [none |-> FALSE, cols |-> res.cols,
     rows |-> [k \in 1..Len(res.rows) |->
                 [j \in 1..Len(res.cols) |->
                     LET c == res.cols[j]
                         x == res.rows[k].v[c]
                     IN  CASE c = "net"  -> FloatCell(x)
                           [] c = "date" -> DatetimeCell(x)
                           [] OTHER      -> x]]]

(***************************************************************************)
(* Inputs of the normalization: None, and every table whose column list is *)
(* one of Headers and whose rows (at most MaxRows) are ledger entries of   *)
(* Entries, each column taking the cell of the entry that its name calls   *)
(* for.                                                                    *)
(***************************************************************************)
Entry(player, date, net, buy_in, cash_out) ==
    [player |-> player, date |-> date, net |-> net, buy_in |-> buy_in,
     cash_out |-> cash_out, other |-> Txt(" G1 ")]

Entries ==
    { Entry(Txt("Ann"),   Txt("03/04/2024"), Txt("10"),      Txt("100"),       Txt("150")),
      Entry(Txt(" Bob "), Txt("15/01/2024"), Txt("(25.50)"), Txt("$1,234.00"), Txt("$1,208.50")),
      Entry(Txt("Cy"),    Txt("2024-01-16"), Txt("-5"),      Txt("20"),        Txt("15")),
      Entry(Txt("Dee"),   Txt("not-a-date"), Txt("7"),       Txt("10"),        Txt("17")),
      Entry(Txt(""),      Txt("03/04/2024"), Txt("3"),       Txt("10"),        Txt("13")),
      Entry(Txt("  "),    Txt("04/04/2024"), Txt("0"),       Txt("5"),         Txt("5")),
      Entry(NULL,         Txt("05/04/2024"), Txt("1"),       Txt("1"),         Txt("2")),
      Entry(Txt("Eve"),   Txt("06/04/2024"), Txt("abc"),     Txt("n/a"),       Txt("20")),
      Entry(Txt("Flo"),   Txt("07/04/2024"), Txt(""),        Txt("30"),        Txt("")),
      Entry(Txt("Gus"),   NULL,              NULL,           NULL,             Txt("40")),
      Entry(Txt("Hal"),   Txt("2024-01-17"), Txt("x"),       Txt(""),          Txt("8")),
      Entry(Txt("Ian"),   Txt("08/04/2024"), Txt("0.00001"), Txt("0.00001"),   Txt("0.00002")) }

Headers ==
    { <<>>,
      <<"player", "date", "net">>,
      <<" Player ", "DATE", "Net ">>,
      <<"group", "net", "date", "player">>,
      <<"player", "date", "buy_in", "cash_out">>,
      <<"Cash_Out", "Buy_In", "Date", "Player", "session_id">>,
      <<"player", "date", "net", "buy_in", "cash_out">>,
      <<"player", "date", "score">>,
      <<"player", "Player", "date", "score">>,
      <<"player", "date", "Net", "net ">>,
      <<"player", "date", "net", "venue", "Venue">> }

\* The cell of entry r under a column named c.
CellFor(r, c) ==
    LET name == Strip(Lower(c))
    IN  CASE name = "player"   -> r.player
          [] name = "date"     -> r.date
          [] name = "net"      -> r.net
          [] name = "score"    -> r.net
          [] name = "buy_in"   -> r.buy_in
          [] name = "cash_out" -> r.cash_out
          [] OTHER             -> r.other

RECURSIVE EntryListsUpTo(_)
EntryListsUpTo(n) ==
    IF n = 0 THEN {<<>>}
    ELSE LET shorter == EntryListsUpTo(n - 1)
         IN  shorter \cup {Append(l, r) : l \in shorter, r \in Entries}

TableOf(h, entries) ==
    [none |-> FALSE, cols |-> h,
     rows |-> [i \in 1..Len(entries) |->
                 [j \in 1..Len(h) |-> CellFor(entries[i], h[j])]]]

NoneTable == [none |-> TRUE, cols |-> <<>>, rows |-> <<>>]

InputTables ==
    {NoneTable} \cup {TableOf(h, l) : h \in Headers, l \in EntryListsUpTo(MaxRows)}

PendingResult == [status |-> "pending", cols |-> <<>>, rows |-> <<>>]

Init ==
    /\ df \in InputTables
    /\ result = PendingResult
    /\ again = PendingResult
    /\ IdleClean /\ IdleDetect /\ IdleStreak /\ IdlePage

\* One call of normalize_results_df on df.
Normalize ==
    /\ result.status = "pending"
    /\ result' = normalize_results_df(df)
    /\ UNCHANGED <<df, again, cleanVars, detectVars, streakVars, pageVars>>

\* normalize_results_df called on the table the first call returned.
NormalizeAgain ==
    /\ result.status = "ok"
    /\ again.status = "pending"
    /\ again' = normalize_results_df(FrameOf(result))
    /\ UNCHANGED <<df, result, cleanVars, detectVars, streakVars, pageVars>>

Next == Normalize \/ NormalizeAgain

Spec == Init /\ [][Next]_vars

(***************************************************************************)
(* Claims about the normalization.                                         *)
(***************************************************************************)
Returned == result.status \in {"ok", "raised"}

\* The schema of the input, from the trimmed, lowercased names of df.
InputNames  == NameSet(df.cols, StandardName)
InputSchema ==
    IF NetDirectCols \subseteq InputNames THEN "net_direct"
    ELSE IF BuyinCashoutCols \subseteq InputNames THEN "buyin_cashout"
    ELSE "unknown"

\* The cell of input row i in the (single) column whose standard name is c.
InputCell(i, c) == df.rows[i][ColumnPos(StandardColumns(df.cols), c)]

OutIdx == {result.rows[k].idx : k \in 1..Len(result.rows)}

\* C1 as stated: for every input table normalize_results_df returns a
\* table without raising, with columns among player, date, net, group,
\* session_id.
Cex_C1_NeverRaises ==
    Returned => /\ result.status = "ok"
                /\ Range(result.cols) \subseteq Range(StdCols)

MissingPlayer(c) == c.null \/ Strip(c.s) = ""

\* C2 as stated: every output record has a non-empty trimmed player, a
\* parsed date and a numeric net, and no input row with a missing player
\* (null, empty, whitespace-only) appears in the output.
Cex_C2_NoMissingFields ==
    result.status = "ok" =>
        \A k \in 1..Len(result.rows) :
            LET r == result.rows[k]
            IN  /\ ~r.v.player.null
                /\ r.v.player.s # ""
                /\ r.v.player.s = Strip(r.v.player.s)
                /\ r.v.date.ok
                /\ r.v.net.ok
                /\ ~MissingPlayer(InputCell(r.idx, "player"))

\* C4: for a buyin_cashout ledger every output record's net is
\* cleaned(cash_out) - cleaned(buy_in) of its own input row, both sides being
\* numbers (100 and 150 give 50); an input row one side of which cleans to
\* missing is not in the output.
Thm_C4_BuyinCashoutNet ==
    (result.status = "ok" /\ InputSchema = "buyin_cashout" /\ ~IsEmptyFrame(df)) =>
        /\ \A k \in 1..Len(result.rows) :
              LET r  == result.rows[k]
                  co == _clean_numeric_series(InputCell(r.idx, "cash_out"))
                  bi == _clean_numeric_series(InputCell(r.idx, "buy_in"))
              IN  /\ co.ok /\ bi.ok
                  /\ r.v.net = Sub(co, bi)
                  /\ (bi = Num(100, 0) /\ co = Num(150, 0)) => r.v.net = Num(50, 0)
                  /\ (bi = Num(1234, 0) /\ co = Num(12085, 1)) => r.v.net = Num(-255, 1)
        /\ \A i \in 1..Len(df.rows) :
              (  \/ ~_clean_numeric_series(InputCell(i, "cash_out")).ok
                 \/ ~_clean_numeric_series(InputCell(i, "buy_in")).ok ) => i \notin OutIdx

Wit_C4_OneKeptOneDropped ==
    /\ result.status = "ok" /\ InputSchema = "buyin_cashout"
    /\ Len(df.rows) = 2 /\ OutIdx = {1}
    /\ InputCell(1, "buy_in") = Txt("100") /\ InputCell(1, "cash_out") = Txt("150")
    /\ result.rows[1].v.net = Num(50, 0)
    /\ ParseOne(AsStr(InputCell(2, "date"))).ok
    /\ _clean_numeric_series(InputCell(2, "buy_in")).ok
    /\ ~_clean_numeric_series(InputCell(2, "cash_out")).ok

\* The net of input row i, each cell cleaned on its own.
RowNet(i) ==
    IF InputSchema = "buyin_cashout"
    THEN Sub(_clean_numeric_series(InputCell(i, "cash_out")), _clean_numeric_series(InputCell(i, "buy_in")))
    ELSE _clean_numeric_series(InputCell(i, "net"))

\* A defective row: missing player, unparseable date or bad numeric cell.
Defective(i) ==
    \/ MissingPlayer(InputCell(i, "player"))
    \/ IsNullDate(InputCell(i, "date"))
    \/ ~ParseOne(InputCell(i, "date").s).ok
    \/ ~RowNet(i).ok

WithoutDefective ==
    LET good(i) == ~Defective(i)
        kept    == SelectSeq([i \in 1..Len(df.rows) |-> i], good)
    IN  [df EXCEPT !.rows = [k \in 1..Len(kept) |-> df.rows[kept[k]]]]

Content(res) == [k \in 1..Len(res.rows) |-> res.rows[k].v]

\* C6 as stated: for a recognized schema the output equals, in content and
\* relative order, the output for the same input with the defective rows
\* deleted beforehand.
Cex_C6_DefectiveRowsRemoveOnlyThemselves ==
    (result.status = "ok" /\ InputSchema # "unknown" /\ ~IsEmptyFrame(df)) =>
        Content(result) = Content(normalize_results_df(WithoutDefective))

\* C7: when the input is None, has no rows or no columns, or has a column
\* set of unknown schema, normalize_results_df returns a table with zero
\* rows and does not raise.
Thm_C7_UnusableInputIsEmpty ==
    (Returned /\ (df.none \/ Len(df.rows) = 0 \/ Len(df.cols) = 0
                    \/ InputSchema = "unknown")) =>
        /\ result.status = "ok"
        /\ Len(result.rows) = 0

Wit_C7_UnknownSchemaWithRows ==
    /\ result.status = "ok" /\ Len(result.rows) = 0
    /\ df.cols = <<"player", "date", "score">>
    /\ Len(df.rows) = 2
    /\ df.rows[1] = <<Txt("Ann"), Txt("03/04/2024"), Txt("10")>>

\* C11 as stated: normalize_results_df applied to its own output returns a
\* table with the same column set and the same rows with the same values as
\* that output, for every input table, also when every row was dropped.
Cex_C11_NormalizeIdempotent ==
    again.status # "pending" =>
        /\ again.status = "ok"
        /\ Range(again.cols) = Range(result.cols)
        /\ Content(again) = Content(result)

\* Where the second call differs from the first: every row was dropped and
\* fewer than five columns were kept (the second call takes the df.empty
\* branch and returns the five-column table), or a net prints in scientific
\* notation (1e-05 cleans to the text 1-05, which is no number).  On every
\* other output the second call returns the same table.
AllRowsDropped == Len(result.rows) = 0 /\ Range(result.cols) # Range(StdCols)

ScientificNet ==
    \E k \in 1..Len(result.rows) : HasChar(float_repr(result.rows[k].v.net), "e")

C11_AgreesOtherwise ==
    (again.status # "pending" /\ ~AllRowsDropped /\ ~ScientificNet) =>
        /\ again.status = "ok"
        /\ Range(again.cols) = Range(result.cols)
        /\ Content(again) = Content(result)

(***************************************************************************)
(* Streak state of a player profile.  metrics.player_profile is not among  *)
(* the sources; the fold is modelled from its specification.  The page     *)
(* shows its result under the caption "win = net>0, loss = net<0, neutral  *)
(* resets" and ui.render_streaks reads current, longest_win, longest_loss. *)
(* Nets are whole numbers here.                                            *)
(***************************************************************************)
MaxSessions == 5

NetValues == {10, 5, -3, -1, 2, 0}

Classify(net) == IF net > 0 THEN "win" ELSE IF net < 0 THEN "loss" ELSE "neutral"

Max(a, b) == IF a > b THEN a ELSE b

\* Mutant of StreakStep: a neutral session is skipped instead of resetting.
StreakStep_NeutralSkips(st, net) ==
    LET kind == Classify(net)
        len  == IF st.kind = kind THEN st.length + 1 ELSE 1
    IN  IF kind = "neutral" THEN [st EXCEPT !.pos = st.pos + 1]
        ELSE [pos |-> st.pos + 1, kind |-> kind, length |-> len,
              longest_win  |-> IF kind = "win" THEN Max(st.longest_win, len)
                               ELSE st.longest_win,
              longest_loss |-> IF kind = "loss" THEN Max(st.longest_loss, len)
                               ELSE st.longest_loss]

\* One session folded into the accumulator.
StreakStep(st, net) ==
    LET kind == Classify(net)
        len  == IF st.kind = kind THEN st.length + 1 ELSE 1
    IN  IF kind = "neutral"
        THEN [st EXCEPT !.pos = st.pos + 1, !.kind = "neutral", !.length = 0]
        ELSE [pos |-> st.pos + 1, kind |-> kind, length |-> len,
              longest_win  |-> IF kind = "win" THEN Max(st.longest_win, len)
                               ELSE st.longest_win,
              longest_loss |-> IF kind = "loss" THEN Max(st.longest_loss, len)
                               ELSE st.longest_loss]

InitStreak ==
    /\ nets = <<>>
    /\ streak = StartStreak
    /\ IdleClean /\ IdleDetect /\ IdleNorm /\ IdlePage

\* The next session of the player, in date order, enters the fold.
ProcessSession ==
    /\ Len(nets) < MaxSessions
    /\ \E net \in NetValues :
          /\ nets' = Append(nets, net)
          /\ streak' = StreakStep(streak, net)
    /\ UNCHANGED <<cleanVars, detectVars, normVars, pageVars>>

NextStreak == ProcessSession

SpecStreak == InitStreak /\ [][NextStreak]_vars

KindAt(i) == Classify(nets[i])

\* Length of the run of sessions of one non-neutral kind that ends at j.
RunLen(j) ==
    IF KindAt(j) = "neutral" THEN 0
    ELSE Cardinality({i \in 1..j : \A k \in i..j : KindAt(k) = KindAt(j)})

LongestRun(kind) ==
    LET lens == {RunLen(j) : j \in {i \in 1..Len(nets) : KindAt(i) = kind}}
    IN  IF lens = {} THEN 0 ELSE CHOOSE l \in lens : \A o \in lens : o <= l

\* C9: after the pass over the history, current is the kind of the last
\* session with the length of the run that ends there (neutral and 0 after
\* a neutral session or with no session), longest_win and longest_loss are
\* the longest runs of wins and of losses, each at least the current length
\* of its kind; [+10, +5, -3, -1, +2] gives 1 win, 2 and 2.
Thm_C9_StreakFold ==
    LET n == Len(nets)
    IN  /\ streak.pos = n
        /\ n = 0 => streak = StartStreak
        /\ n > 0 => (streak.kind = KindAt(n) /\ streak.length = RunLen(n))
        /\ streak.kind = "neutral" <=> streak.length = 0
        /\ streak.longest_win = LongestRun("win")
        /\ streak.longest_loss = LongestRun("loss")
        /\ streak.kind = "win" => streak.longest_win >= streak.length
        /\ streak.kind = "loss" => streak.longest_loss >= streak.length
        /\ nets = <<10, 5, -3, -1, 2>> =>
              /\ streak.kind = "win" /\ streak.length = 1
              /\ streak.longest_win = 2 /\ streak.longest_loss = 2

Wit_C9_Example ==
    /\ nets = <<10, 5, -3, -1, 2>>
    /\ streak.pos = 5 /\ streak.kind = "win" /\ streak.length = 1
    /\ streak.longest_win = 2 /\ streak.longest_loss = 2

(***************************************************************************)
(* The Player Profile page: one run of the script after another.  A        *)
(* Dataset is [none, rows] with rows the set of its sessions [player,      *)
(* date]; dates are day numbers 1..MaxDay.  data.load_dataset and          *)
(* data.apply_filters are not among the sources: the first returns any     *)
(* Dataset, the second is modelled from its specification.                 *)
(***************************************************************************)
MaxDay == 2

PagePlayers == {"Ann", "Bob"}

Sessions == [player : PagePlayers, date : 1..MaxDay]
Datasets == {[none |-> FALSE, rows |-> R] : R \in SUBSET Sessions}

IsEmptyOrNone(f) == f.none \/ f.rows = {}

Player(p) == [none |-> FALSE, name |-> p]

\* sorted(filtered_df["player"].unique()), as a set.
\* Mutant of PlayerOptions: the options come from the unfiltered Dataset.
PlayerOptions_Unfiltered(f) == {r.player : r \in loaded.rows}

PlayerOptions(f) == {r.player : r \in f.rows}

\* st.selectbox: one of the options, None when there is none.
Selectbox(options) ==
    IF options = {} THEN {NoPlayer} ELSE {Player(p) : p \in options}

\* What ui.render_global_filters can return for the Dataset f.
render_global_filters(f) ==
    IF IsEmptyOrNone(f) THEN {NoFilters}
    ELSE LET days    == {r.date : r \in f.rows}
             min     == CHOOSE d \in days : \A o \in days : d <= o
             max     == CHOOSE d \in days : \A o \in days : o <= d
             players == {r.player : r \in f.rows}
         IN  {[given |-> TRUE, lo |-> lo, hi |-> hi, players |-> sel] :
                 lo \in min..max, hi \in min..max, sel \in SUBSET players}
             \ {x \in [given : {TRUE}, lo : min..max, hi : min..max,
                       players : SUBSET players] : x.lo > x.hi}

\* data.apply_filters: the sessions inside the date range whose player is
\* selected; an empty selection does not restrict.
apply_filters(f, flt) ==
    IF f.none \/ ~flt.given THEN f
    ELSE [none |-> FALSE,
          rows |-> {r \in f.rows :
                      /\ flt.lo <= r.date /\ r.date <= flt.hi
                      /\ (flt.players = {} \/ r.player \in flt.players)}]

InitPage ==
    /\ pc = "load"
    /\ loaded \in Datasets
    /\ filters = NoFilters
    /\ filtered_df = NoFrame
    /\ selected_player = NoPlayer
    /\ profile_call = NoCall
    /\ IdleClean /\ IdleDetect /\ IdleNorm /\ IdleStreak

\* df, dq = data.load_dataset(); ui.show_mode_banner(dq)
LoadDataset ==
    /\ pc = "load"
    /\ pc' = "button"
    /\ UNCHANGED <<loaded, filters, filtered_df, selected_player, profile_call>>
    /\ UNCHANGED <<cleanVars, detectVars, normVars, streakVars>>

\* ui.render_refresh_button, button clicked: caches cleared, st.rerun();
\* the next run loads what the sheet holds then.
RefreshClicked ==
    /\ pc = "button"
    /\ pc' = "load"
    /\ loaded' \in Datasets
    /\ UNCHANGED <<filters, filtered_df, selected_player, profile_call>>
    /\ UNCHANGED <<cleanVars, detectVars, normVars, streakVars>>

\* ui.render_refresh_button, button not clicked;
\* filters = ui.render_global_filters(df)
RenderGlobalFilters ==
    /\ pc = "button"
    /\ filters' \in render_global_filters(loaded)
    /\ pc' = "apply"
    /\ UNCHANGED <<loaded, filtered_df, selected_player, profile_call>>
    /\ UNCHANGED <<cleanVars, detectVars, normVars, streakVars>>

\* filtered_df = data.apply_filters(df, filters); None is provided for by
\* the page and so is among the outcomes.
ApplyFilters ==
    /\ pc = "apply"
    /\ filtered_df' \in {apply_filters(loaded, filters), NoFrame}
    /\ pc' = "check"
    /\ UNCHANGED <<loaded, filters, selected_player, profile_call>>
    /\ UNCHANGED <<cleanVars, detectVars, normVars, streakVars>>

\* if filtered_df is None or filtered_df.empty: st.warning(...); st.stop()
StopOnEmpty ==
    /\ pc = "check"
    /\ IsEmptyOrNone(filtered_df)
    /\ pc' = "stopped"
    /\ UNCHANGED <<loaded, filters, filtered_df, selected_player, profile_call>>
    /\ UNCHANGED <<cleanVars, detectVars, normVars, streakVars>>

\* players = sorted(...); selected_player = st.selectbox("Player", players)
SelectPlayer ==
    /\ pc = "check"
    /\ ~IsEmptyOrNone(filtered_df)
    /\ selected_player' \in Selectbox(PlayerOptions(filtered_df))
    /\ pc' = "call"
    /\ UNCHANGED <<loaded, filters, filtered_df, profile_call>>
    /\ UNCHANGED <<cleanVars, detectVars, normVars, streakVars>>

\* player_profile = metrics.player_profile(filtered_df, selected_player),
\* and the rest of the script, which renders it.
CallPlayerProfile ==
    /\ pc = "call"
    /\ profile_call' = [made |-> TRUE, frame |-> filtered_df, player |-> selected_player]
    /\ pc' = "rendered"
    /\ UNCHANGED <<loaded, filters, filtered_df, selected_player>>
    /\ UNCHANGED <<cleanVars, detectVars, normVars, streakVars>>

\* A widget is touched: Streamlit runs the script again from the top.
Rerun ==
    /\ pc \in {"stopped", "rendered"}
    /\ pc' = "load"
    /\ filters' = NoFilters
    /\ filtered_df' = NoFrame
    /\ selected_player' = NoPlayer
    /\ profile_call' = NoCall
    /\ UNCHANGED loaded
    /\ UNCHANGED <<cleanVars, detectVars, normVars, streakVars>>

NextPage ==
    \/ LoadDataset
    \/ RefreshClicked
    \/ RenderGlobalFilters
    \/ ApplyFilters
    \/ StopOnEmpty
    \/ SelectPlayer
    \/ CallPlayerProfile
    \/ Rerun

SpecPage == InitPage /\ [][NextPage]_vars

SessionsOf(f, p) == {r \in f.rows : ~p.none /\ r.player = p.name}

\* C10: in every run of the page metrics.player_profile is called only
\* with the filtered Dataset of that run, found neither None nor empty, and
\* with a player who has at least one session in it; a run whose filtered
\* Dataset is None or empty stops without the call.
Thm_C10_ProfileOnlyForPresentPlayer ==
    /\ profile_call.made =>
          /\ profile_call.frame = filtered_df
          /\ ~IsEmptyOrNone(profile_call.frame)
          /\ SessionsOf(profile_call.frame, profile_call.player) # {}
    /\ pc = "call" =>
          /\ ~IsEmptyOrNone(filtered_df)
          /\ SessionsOf(filtered_df, selected_player) # {}
    /\ (pc \in {"check", "stopped"} /\ IsEmptyOrNone(filtered_df)) => ~profile_call.made
    /\ pc = "stopped" => IsEmptyOrNone(filtered_df)

Wit_C10_CallAfterFiltering ==
    /\ profile_call.made
    /\ filters.given /\ filters.players = {}
    /\ profile_call.frame.rows # loaded.rows
    /\ profile_call.player = Player("Bob")
    /\ SessionsOf(loaded, Player("Ann")) # {}

====
